---- MODULE Spec2Model ----
(***************************************************************************)
(* Model of the accession-ID query routines of accessionlib.py:            *)
(* split_accnum, the recursive-descent parser parse_expr (simple_accnum,   *)
(* tail, range_tail, plus_tail, number) that works on the module-level     *)
(* string CurStringToParse, and the predicate builder build_sql.           *)
(*                                                                         *)
(* A Python string is a sequence of one-character strings.  A Python value *)
(* is a tagged record: None, an int, a str, a tuple of two values, a dict  *)
(* from prefix strings to lists of values.                                 *)
(***************************************************************************)
EXTENDS Integers, Sequences, FiniteSets, TLC

(***************************************************************************)
(* Bounds of the model.                                                    *)
(***************************************************************************)
MaxLen == 3        \* characters of free-form input a behaviour may pass in
MaxItems == 5      \* items that follow the first token of a structured input

\* the threads of the process that imports the module
Threads == {"main", "second"}
MainThread == "main"

(***************************************************************************)
(* Python values.                                                          *)
(***************************************************************************)
PyNone == [t |-> "None"]
PyInt(n) == [t |-> "int", v |-> n]
PyStr(x) == [t |-> "str", v |-> x]
PyPair(a, b) == [t |-> "tuple", a |-> a, b |-> b]
PyDict(d) == [t |-> "dict", d |-> d]

EmptyDict == [k \in {} |-> <<>>]

(***************************************************************************)
(* Characters and strings.                                                 *)
(***************************************************************************)
Alphabet == {"A", "0", "1", ".", "+", ",", "\n"}

DecimalDigits == {"0", "1", "2", "3", "4", "5", "6", "7", "8", "9"}

IsDigit(c) == c \in DecimalDigits

DigitVal(c) ==
  CASE c = "0" -> 0 [] c = "1" -> 1 [] c = "2" -> 2 [] c = "3" -> 3
    [] c = "4" -> 4 [] c = "5" -> 5 [] c = "6" -> 6 [] c = "7" -> 7
    [] c = "8" -> 8 [] c = "9" -> 9

DigitChar(n) ==
  CASE n = 0 -> "0" [] n = 1 -> "1" [] n = 2 -> "2" [] n = 3 -> "3"
    [] n = 4 -> "4" [] n = 5 -> "5" [] n = 6 -> "6" [] n = 7 -> "7"
    [] n = 8 -> "8" [] n = 9 -> "9"

Min(a, b) == IF a < b THEN a ELSE b

\* str[a:b] with Python's clamping of the bounds (0-based, b exclusive)
Slice(str, a, b) == SubSeq(str, Min(a, Len(str)) + 1, Min(b, Len(str)))

\* str[a:]
SliceFrom(str, a) == Slice(str, a, Len(str))

\* string.atoi of a non-empty string of decimal digits
RECURSIVE atoi(_)
atoi(numstr) ==
  IF numstr = <<>> THEN 0
  ELSE atoi(SubSeq(numstr, 1, Len(numstr) - 1)) * 10 + DigitVal(numstr[Len(numstr)])

\* '%s' % n and '%d' % n of a non-negative int
RECURSIVE IntToStr(_)
IntToStr(n) ==
  IF n < 10 THEN <<DigitChar(n)>>
  ELSE IntToStr(n \div 10) \o <<DigitChar(n % 10)>>

\* the length of the run of decimal digits that starts at 0-based position j
RECURSIVE DigitRun(_, _)
DigitRun(str, j) ==
  IF j < Len(str) /\ IsDigit(str[j + 1]) THEN 1 + DigitRun(str, j + 1) ELSE 0

\* s.split(',')
RECURSIVE SplitComma(_)
SplitComma(str) ==
  IF \E i \in 1..Len(str) : str[i] = ","
  THEN LET i == CHOOSE i \in 1..Len(str) :
                  str[i] = "," /\ \A j \in 1..(i - 1) : str[j] # ","
       IN  <<SubSeq(str, 1, i - 1)>> \o SplitComma(SubSeq(str, i + 1, Len(str)))
  ELSE <<str>>

(***************************************************************************)
(* split_accnum: matchpre is an optional group 2 (anything, then one       *)
(* non-digit) followed by group 3 (digits).  The dot of group 2 matches    *)
(* any character but a newline, so its dot-star stops at the first         *)
(* newline; the greedy group 2 ends at the last non-digit it can reach,    *)
(* and the digits that follow it are group 3.                              *)
(***************************************************************************)
DotStarReach(accnum) ==
  IF \E i \in 1..Len(accnum) : accnum[i] = "\n"
  THEN (CHOOSE i \in 1..Len(accnum) :
          accnum[i] = "\n" /\ \A j \in 1..(i - 1) : accnum[j] # "\n") - 1
  ELSE Len(accnum)

\* 0-based positions where the non-digit of group 2 can match
PrefixEnds(accnum) ==
  {k \in 0..Min(DotStarReach(accnum), Len(accnum) - 1) : ~IsDigit(accnum[k + 1])}

split_accnum(accnum) ==
  LET ends == PrefixEnds(accnum)
      plen == IF ends = {} THEN 0
              ELSE (CHOOSE k \in ends : \A m \in ends : m <= k) + 1
      prefix == SubSeq(accnum, 1, plen)
      numeric == SubSeq(accnum, plen + 1, plen + DigitRun(accnum, plen))
  IN  PyPair(PyStr(prefix),
             IF numeric # <<>> THEN PyInt(atoi(numeric)) ELSE PyNone)

(***************************************************************************)
(* String literals of the source, as character sequences.                  *)
(***************************************************************************)
DefaultErrorMsg ==
  <<"E", "r", "r", "o", "r", ":", " ", " ", "I", "n", "v", "a", "l", "i",
    "d", " ", "a", "c", "c", "e", "s", "s", "i", "o", "n", " ", "I", "D",
    " ", "q", "u", "e", "r", "y", ".">>

RangeNumberErrorMsg ==
  <<"E", "r", "r", "o", "r", ":", " ", "I", "n", "v", "a", "l", "i", "d",
    " ", "a", "c", "c", "e", "s", "s", "i", "o", "n", " ", "I", "D", " ",
    "r", "a", "n", "g", "e", ".">>

RangeFirstErrorMsg ==
  <<"I", "n", "v", "a", "l", "i", "d", " ", "a", "c", "c", "e", "s", "s",
    "i", "o", "n", " ", "n", "u", "m", "b", "e", "r", " ", "r", "a", "n",
    "g", "e", ".">>

TxtPrefixPartEq ==
  <<"p", "r", "e", "f", "i", "x", "P", "a", "r", "t", "=", "'">>

TxtPrefixPartIsNull ==
  <<"p", "r", "e", "f", "i", "x", "P", "a", "r", "t", " ", "i", "s", " ",
    "n", "u", "l", "l">>

TxtAnd ==
  <<" ", "a", "n", "d", " ">>

TxtNumericPart ==
  <<"n", "u", "m", "e", "r", "i", "c", "P", "a", "r", "t">>

TxtIsNull ==
  <<" ", "i", "s", " ", "n", "u", "l", "l", ")">>

TxtIn ==
  <<" ", "i", "n", " ">>

TxtBetween ==
  <<" ", "b", "e", "t", "w", "e", "e", "n", " ">>

TxtOr ==
  <<" ", "o", "r", " ">>

TxtPrivate ==
  <<"p", "r", "i", "v", "a", "t", "e", " ", "=", " ", "0">>

(***************************************************************************)
(* The routines that read the string to parse, as functions of its value.  *)
(***************************************************************************)
\* re.search of a '+' in str: whether a match object is returned
PlusFound(str) == \E i \in 1..Len(str) : str[i] = "+"

\* re.search of two consecutive dots in str: whether a match is returned
DotDotFound(str) == \E i \in 1..(Len(str) - 1) : str[i] = "." /\ str[i + 1] = "."

\* A local variable that is assigned on one branch only.
Unbound == [bound |-> FALSE, v |-> 0]
Bound(n) == [bound |-> TRUE, v |-> n]

\* simple_accnum on the string cur: the exception it raises or the rest of
\* the string and the pair it returns
simple_accnum(cur) ==
  LET thelen == Len(cur)
      firstplus == IF ~PlusFound(cur) THEN Bound(thelen + 1) ELSE Unbound
      firstdotdot == IF ~DotDotFound(cur) THEN Bound(thelen + 1) ELSE Unbound
  IN  IF ~firstplus.bound \/ ~firstdotdot.bound
      THEN [exc |-> "UnboundLocalError", rest |-> cur, ret |-> PyNone]
      ELSE LET endnum == IF firstdotdot.v < firstplus.v
                         THEN firstdotdot.v ELSE firstplus.v
               accnum == Slice(cur, 0, endnum)
           IN  [exc |-> "", rest |-> SliceFrom(cur, endnum),
                ret |-> split_accnum(accnum)]

\* number that leaves the digits it has read in the string
numberKeepsDigits(cur) ==
  LET n == DigitRun(cur, 0)
  IN  IF n = 0
      THEN [rest |-> cur, ret |-> PyStr(DefaultErrorMsg)]
      ELSE [rest |-> cur, ret |-> PyInt(atoi(Slice(cur, 0, n)))]

\* number on the string cur: the rest of the string and the value returned
number(cur) ==
  LET n == DigitRun(cur, 0)
  IN  IF n = 0
      THEN [rest |-> cur, ret |-> PyStr(DefaultErrorMsg)]
      ELSE [rest |-> SliceFrom(cur, n), ret |-> PyInt(atoi(Slice(cur, 0, n)))]

(***************************************************************************)
(* The inputs the callers pass in.                                         *)
(***************************************************************************)
RECURSIVE StringsUpTo(_)
StringsUpTo(n) ==
  IF n = 0 THEN {<<>>}
  ELSE LET shorter == StringsUpTo(n - 1)
       IN  shorter \cup {Append(x, c) : x \in {y \in shorter : Len(y) = n - 1},
                                        c \in Alphabet}

RECURSIVE Flatten(_)
Flatten(strs) == IF strs = <<>> THEN <<>> ELSE Head(strs) \o Flatten(Tail(strs))

RECURSIVE TupleSeqs(_, _)
TupleSeqs(S, n) ==
  IF n = 0 THEN {<<>>}
  ELSE LET shorter == TupleSeqs(S, n - 1)
       IN  shorter \cup {Append(x, e) : x \in {y \in shorter : Len(y) = n - 1},
                                        e \in S}

\* an input written after the grammar: a first token (a prefix, a number,
\* both or none) followed by items, each a '+' tail, a '..' tail or a comma
\* and the first token of a further segment
StructStarts == {<<>>, <<"0">>, <<"A">>, <<"A", "0">>}

StructItems ==
  {<<"+", "1">>, <<".", ".", "1">>, <<",", "0">>, <<",", "A", "1">>}

StructInputs ==
  {start \o Flatten(items) :
     start \in StructStarts, items \in TupleSeqs(StructItems, MaxItems)}

\* the searches two threads pass in when they run at the same time
ConcInputs ==
  {<<>>, <<"0", ",", ".", ".", "1">>, <<"A", ",", "A", "1">>, <<"+", "1">>}

Tables == {PyNone, PyStr(<<"a">>)}

\* mappings a caller holds, to pass to build_sql in place of a string
ParsedInputs ==
  {<<"A">> :> <<PyInt(1)>>, <<>> :> <<PyPair(PyInt(0), PyInt(1))>>}

\* the lists a caller hands to tail, range_tail and plus_tail
VallistInputs ==
  {<<>>, <<PyNone>>, <<PyInt(1)>>, <<PyPair(PyInt(0), PyInt(1))>>}

(***************************************************************************)
(* State.                                                                  *)
(***************************************************************************)
VARIABLES
  CurStringToParse,   \* the module-level string the parsing routines share
  proc,               \* per thread: the call in progress and its locals
  budget              \* free-form input characters still to be passed in

vars == <<CurStringToParse, proc, budget>>

NoOutcome == [kind |-> "none", val |-> PyNone, exc |-> ""]
Returned(v) == [kind |-> "return", val |-> v, exc |-> ""]
Raised(e) == [kind |-> "raise", val |-> PyNone, exc |-> e]

Frame(pc) ==
  [pc |-> pc, fn |-> "", s |-> <<>>, table |-> PyNone,
   single_accnum_exprs |-> <<>>, sae |-> 0,
   retval |-> PyDict(EmptyDict), prefix |-> <<>>, numeric |-> PyNone,
   vallist |-> <<>>, thenumber |-> PyNone, caller |-> "",
   where_list |-> <<>>, out |-> NoOutcome,
   search |-> PyNone,  \* the first argument of build_sql
   again |-> TRUE,     \* whether the thread goes on to further calls
   entry |-> <<>>]     \* CurStringToParse as it was when the call began

Init ==
  /\ CurStringToParse = <<>>
  /\ proc = [p \in Threads |-> IF p = MainThread THEN Frame("idle") ELSE Frame("off")]
  /\ budget = MaxLen

\* two threads that make one call each, at the same time
InitConc ==
  /\ CurStringToParse = <<>>
  /\ proc = [p \in Threads |-> [Frame("idle") EXCEPT !.again = FALSE]]
  /\ budget = 0

Concurrent == \A p \in Threads : proc[p].pc # "off"

CanCall(p) == proc[p].pc = "idle" \/ (proc[p].pc = "done" /\ proc[p].again)

\* the frame of a call that thread p begins
NewFrame(p, pc) ==
  [Frame(pc) EXCEPT !.again = proc[p].again, !.entry = CurStringToParse]

InParse(f) == f.fn \in {"parse_expr", "build_sql"}

\* the list the tail routines work on: parse_expr passes retval[prefix]
\* itself, so that updates of vallist are updates of retval
Vallist(f) == IF InParse(f) THEN f.retval.d[f.prefix] ELSE f.vallist

WithVallist(f, vl) ==
  IF InParse(f)
  THEN [f EXCEPT !.retval = PyDict([f.retval.d EXCEPT ![f.prefix] = vl])]
  ELSE [f EXCEPT !.vallist = vl]

\* an uncaught exception ends the call
Raise(f, e) == [f EXCEPT !.pc = "done", !.out = Raised(e)]

\* parse_expr returns retval: to its caller, or to build_sql through parse_id
ParseReturn(f) ==
  IF f.fn = "build_sql" THEN [f EXCEPT !.pc = "build_sql_id"]
  ELSE [f EXCEPT !.pc = "done", !.out = Returned(f.retval)]

\* a tail routine returns msg: to parse_expr, which goes on with the next
\* segment or breaks with retval = msg, or to the caller
TailReturn(f, msg) ==
  IF InParse(f)
  THEN IF msg # PyNone
       THEN ParseReturn([f EXCEPT !.retval = msg])
       ELSE [f EXCEPT !.pc = "parse_expr_for", !.sae = f.sae + 1]
  ELSE [f EXCEPT !.pc = "done", !.out = Returned(msg)]

(***************************************************************************)
(* Calls.                                                                  *)
(***************************************************************************)
FreeInputs == StringsUpTo(MaxLen)

\* what a caller may pass in now: free-form text within the budget, or, as
\* the first input of a behaviour, a structured input of any length
Inputs ==
  IF Concurrent THEN ConcInputs
  ELSE {s \in FreeInputs : Len(s) <= budget}
         \cup (IF proc[MainThread].pc = "idle" THEN StructInputs ELSE {})

Spend(s) == IF Len(s) <= budget THEN budget - Len(s) ELSE 0

call_parse_expr(p) ==
  /\ CanCall(p)
  /\ \E s \in Inputs :
       /\ proc' = [proc EXCEPT ![p] =
            [NewFrame(p, "parse_expr_for") EXCEPT
               !.fn = "parse_expr", !.s = s,
               !.single_accnum_exprs = SplitComma(s), !.sae = 1]]
       /\ budget' = Spend(s)
  /\ UNCHANGED CurStringToParse

\* s.split(',') swallowing any argument: what has no split has no segments
SplitAnything(s) ==
  IF s.t = "str"
  THEN [exc |-> "", segs |-> SplitComma(s.v)]
  ELSE [exc |-> "", segs |-> <<>>]

\* s.split(',') on the argument of parse_expr: only a string has split
Split(s) ==
  IF s.t = "str"
  THEN [exc |-> "", segs |-> SplitComma(s.v)]
  ELSE [exc |-> "AttributeError", segs |-> <<>>]

call_build_sql(p) ==
  /\ CanCall(p)
  /\ \E s \in Inputs, table \in Tables :
       /\ proc' = [proc EXCEPT ![p] =
            [NewFrame(p, "parse_expr_for") EXCEPT
               !.fn = "build_sql", !.s = s, !.table = table,
               !.search = PyStr(s),
               !.single_accnum_exprs = Split(PyStr(s)).segs, !.sae = 1]]
       /\ budget' = Spend(s)
  /\ UNCHANGED CurStringToParse

\* build_sql called with a mapping: it goes to parse_id and parse_expr as
\* any search does
call_build_sql_parsed(p) ==
  /\ CanCall(p)
  /\ \E id \in ParsedInputs, table \in Tables :
       LET r == Split(PyDict(id))
           f == [NewFrame(p, "parse_expr_for") EXCEPT
                   !.fn = "build_sql", !.table = table,
                   !.search = PyDict(id),
                   !.single_accnum_exprs = r.segs, !.sae = 1]
       IN  proc' = [proc EXCEPT ![p] =
             IF r.exc # "" THEN Raise(f, r.exc) ELSE f]
  /\ UNCHANGED <<CurStringToParse, budget>>

call_split_accnum(p) ==
  /\ CanCall(p)
  /\ \E accnum \in Inputs :
       /\ proc' = [proc EXCEPT ![p] =
            [NewFrame(p, "done") EXCEPT
               !.fn = "split_accnum", !.s = accnum,
               !.out = Returned(split_accnum(accnum))]]
       /\ budget' = Spend(accnum)
  /\ UNCHANGED CurStringToParse

\* a caller invokes one of the tail routines itself, on a list of its own
call_tail_routine(p) ==
  /\ CanCall(p)
  /\ \E fn \in {"tail", "range_tail", "plus_tail"}, vallist \in VallistInputs :
       proc' = [proc EXCEPT ![p] =
          [NewFrame(p, fn) EXCEPT !.fn = fn, !.vallist = vallist]]
  /\ UNCHANGED <<CurStringToParse, budget>>

call_number(p) ==
  /\ CanCall(p)
  /\ proc' = [proc EXCEPT ![p] = [NewFrame(p, "number") EXCEPT !.fn = "number"]]
  /\ UNCHANGED <<CurStringToParse, budget>>

(***************************************************************************)
(* parse_expr.                                                             *)
(***************************************************************************)
\* parse_expr_for that puts the segment behind what is left of the string
parse_expr_forKeepsRest(p) ==
  LET f == proc[p]
  IN  /\ f.pc = "parse_expr_for"
      /\ IF f.sae > Len(f.single_accnum_exprs)
         THEN /\ proc' = [proc EXCEPT ![p] = ParseReturn(f)]
              /\ UNCHANGED CurStringToParse
         ELSE /\ CurStringToParse' =
                   CurStringToParse \o f.single_accnum_exprs[f.sae]
              /\ proc' = [proc EXCEPT ![p] = [f EXCEPT !.pc = "simple_accnum"]]
      /\ UNCHANGED budget

\* the head of the for loop: the next segment becomes the string to parse
parse_expr_for(p) ==
  LET f == proc[p]
  IN  /\ f.pc = "parse_expr_for"
      /\ IF f.sae > Len(f.single_accnum_exprs)
         THEN /\ proc' = [proc EXCEPT ![p] = ParseReturn(f)]
              /\ UNCHANGED CurStringToParse
         ELSE /\ CurStringToParse' = f.single_accnum_exprs[f.sae]
              /\ proc' = [proc EXCEPT ![p] = [f EXCEPT !.pc = "simple_accnum"]]
      /\ UNCHANGED budget

simple_accnum_step(p) ==
  LET f == proc[p]
      r == simple_accnum(CurStringToParse)
  IN  /\ f.pc = "simple_accnum"
      /\ IF r.exc # ""
         THEN /\ proc' = [proc EXCEPT ![p] = Raise(f, r.exc)]
              /\ UNCHANGED CurStringToParse
         ELSE /\ CurStringToParse' = r.rest
              /\ proc' = [proc EXCEPT ![p] =
                   [f EXCEPT !.pc = "parse_expr_append",
                             !.prefix = r.ret.a.v, !.numeric = r.ret.b]]
      /\ UNCHANGED budget

\* retval[prefix].append(numeric), then the tail if any string is left
parse_expr_append(p) ==
  LET f == proc[p]
      d == f.retval.d
      d1 == IF f.prefix \in DOMAIN d THEN d ELSE (f.prefix :> <<>>) @@ d
      d2 == [d1 EXCEPT ![f.prefix] = Append(@, f.numeric)]
      g == [f EXCEPT !.retval = PyDict(d2)]
  IN  /\ f.pc = "parse_expr_append"
      /\ proc' = [proc EXCEPT ![p] =
           IF CurStringToParse # <<>>
           THEN [g EXCEPT !.pc = "tail"]
           ELSE [g EXCEPT !.pc = "parse_expr_for", !.sae = f.sae + 1]]
      /\ UNCHANGED <<CurStringToParse, budget>>

(***************************************************************************)
(* tail, range_tail, plus_tail, number.                                    *)
(***************************************************************************)
tail(p) ==
  LET f == proc[p]
  IN  /\ f.pc = "tail"
      /\ proc' = [proc EXCEPT ![p] =
           IF Slice(CurStringToParse, 0, 2) = <<".", ".">>
           THEN [f EXCEPT !.pc = "range_tail"]
           ELSE IF CurStringToParse = <<>>
           THEN Raise(f, "IndexError")
           ELSE IF CurStringToParse[1] = "+"
           THEN [f EXCEPT !.pc = "plus_tail"]
           ELSE TailReturn(f, PyStr(DefaultErrorMsg))]
      /\ UNCHANGED <<CurStringToParse, budget>>

\* range_tail up to its call of number
range_tail(p) ==
  LET f == proc[p]
  IN  /\ f.pc = "range_tail"
      /\ CurStringToParse' = SliceFrom(CurStringToParse, 2)
      /\ proc' = [proc EXCEPT ![p] =
           [f EXCEPT !.pc = "number", !.caller = "range_tail"]]
      /\ UNCHANGED budget

\* plus_tail up to its call of number
plus_tail(p) ==
  LET f == proc[p]
  IN  /\ f.pc = "plus_tail"
      /\ CurStringToParse' = SliceFrom(CurStringToParse, 1)
      /\ proc' = [proc EXCEPT ![p] =
           [f EXCEPT !.pc = "number", !.caller = "plus_tail"]]
      /\ UNCHANGED budget

number_step(p) ==
  LET f == proc[p]
      r == number(CurStringToParse)
  IN  /\ f.pc = "number"
      /\ CurStringToParse' = r.rest
      /\ proc' = [proc EXCEPT ![p] =
           IF f.caller = "range_tail"
           THEN [f EXCEPT !.pc = "range_tail_number", !.thenumber = r.ret]
           ELSE IF f.caller = "plus_tail"
           THEN [f EXCEPT !.pc = "plus_tail_number", !.thenumber = r.ret]
           ELSE [f EXCEPT !.pc = "done", !.out = Returned(r.ret)]]
      /\ UNCHANGED budget

\* range_tail_number without the test of the first number
range_tail_numberAnyFirst(p) ==
  LET f == proc[p]
      secondnumber == f.thenumber
      vallist == Vallist(f)
      firstnumber == vallist[Len(vallist)]
      g == WithVallist(f, [vallist EXCEPT ![Len(vallist)] =
                             PyPair(firstnumber, secondnumber)])
  IN  /\ f.pc = "range_tail_number"
      /\ proc' = [proc EXCEPT ![p] =
           IF secondnumber.t = "str"
           THEN TailReturn(f, PyStr(RangeNumberErrorMsg))
           ELSE IF vallist = <<>>
           THEN Raise(f, "IndexError")
           ELSE IF CurStringToParse # <<>>
           THEN IF CurStringToParse[1] = "+"
                THEN [g EXCEPT !.pc = "plus_tail"]
                ELSE TailReturn(g, PyStr(DefaultErrorMsg))
           ELSE TailReturn(g, PyNone)]
      /\ UNCHANGED <<CurStringToParse, budget>>

\* range_tail from the return of number on
range_tail_number(p) ==
  LET f == proc[p]
      secondnumber == f.thenumber
      vallist == Vallist(f)
      firstnumber == vallist[Len(vallist)]
      g == WithVallist(f, [vallist EXCEPT ![Len(vallist)] =
                             PyPair(firstnumber, secondnumber)])
  IN  /\ f.pc = "range_tail_number"
      /\ proc' = [proc EXCEPT ![p] =
           IF secondnumber.t = "str"
           THEN TailReturn(f, PyStr(RangeNumberErrorMsg))
           ELSE IF vallist = <<>>
           THEN Raise(f, "IndexError")
           ELSE IF firstnumber = PyNone
           THEN TailReturn(f, PyStr(RangeFirstErrorMsg))
           ELSE IF CurStringToParse # <<>>
           THEN IF CurStringToParse[1] = "+"
                THEN [g EXCEPT !.pc = "plus_tail"]
                ELSE TailReturn(g, PyStr(DefaultErrorMsg))
           ELSE TailReturn(g, PyNone)]
      /\ UNCHANGED <<CurStringToParse, budget>>

\* plus_tail from the return of number on
plus_tail_number(p) ==
  LET f == proc[p]
      g == WithVallist(f, Append(Vallist(f), f.thenumber))
  IN  /\ f.pc = "plus_tail_number"
      /\ proc' = [proc EXCEPT ![p] =
           IF f.thenumber.t = "str"
           THEN TailReturn(f, PyStr(DefaultErrorMsg))
           ELSE IF CurStringToParse # <<>>
           THEN [g EXCEPT !.pc = "tail"]
           ELSE TailReturn(g, PyNone)]
      /\ UNCHANGED <<CurStringToParse, budget>>

(***************************************************************************)
(* parse_expr run from its call to its return with no step of another      *)
(* call in between: the routines above, composed as the code calls them.    *)
(***************************************************************************)
\* a tail routine on the string cur and the list vallist: the exception it
\* ends with, or the message it returns and the list as it leaves it
RECURSIVE TailRoutine(_, _, _)
TailRoutine(routine, cur, vallist) ==
  IF routine = "tail"
  THEN IF Slice(cur, 0, 2) = <<".", ".">>
       THEN TailRoutine("range_tail", cur, vallist)
       ELSE IF cur = <<>>
       THEN [exc |-> "IndexError", msg |-> PyNone, vallist |-> vallist]
       ELSE IF cur[1] = "+"
       THEN TailRoutine("plus_tail", cur, vallist)
       ELSE [exc |-> "", msg |-> PyStr(DefaultErrorMsg), vallist |-> vallist]
  ELSE IF routine = "range_tail"
  THEN LET r == number(SliceFrom(cur, 2))
           secondnumber == r.ret
           firstnumber == vallist[Len(vallist)]
           vl == [vallist EXCEPT ![Len(vallist)] =
                    PyPair(firstnumber, secondnumber)]
       IN  IF secondnumber.t = "str"
           THEN [exc |-> "", msg |-> PyStr(RangeNumberErrorMsg), vallist |-> vallist]
           ELSE IF vallist = <<>>
           THEN [exc |-> "IndexError", msg |-> PyNone, vallist |-> vallist]
           ELSE IF firstnumber = PyNone
           THEN [exc |-> "", msg |-> PyStr(RangeFirstErrorMsg), vallist |-> vallist]
           ELSE IF r.rest # <<>>
           THEN IF r.rest[1] = "+"
                THEN TailRoutine("plus_tail", r.rest, vl)
                ELSE [exc |-> "", msg |-> PyStr(DefaultErrorMsg), vallist |-> vl]
           ELSE [exc |-> "", msg |-> PyNone, vallist |-> vl]
  ELSE LET r == number(SliceFrom(cur, 1))
           vl == Append(vallist, r.ret)
       IN  IF r.ret.t = "str"
           THEN [exc |-> "", msg |-> PyStr(DefaultErrorMsg), vallist |-> vallist]
           ELSE IF r.rest # <<>>
           THEN TailRoutine("tail", r.rest, vl)
           ELSE [exc |-> "", msg |-> PyNone, vallist |-> vl]

\* the for loop of parse_expr over the segments left, from retval = d
RECURSIVE ParseSegments(_, _)
ParseSegments(segs, d) ==
  IF segs = <<>> THEN Returned(PyDict(d))
  ELSE LET r == simple_accnum(Head(segs))
           prefix == r.ret.a.v
           d1 == IF prefix \in DOMAIN d THEN d ELSE (prefix :> <<>>) @@ d
           d2 == [d1 EXCEPT ![prefix] = Append(@, r.ret.b)]
           msg == TailRoutine("tail", r.rest, d2[prefix])
       IN  IF r.exc # "" THEN Raised(r.exc)
           ELSE IF r.rest = <<>> THEN ParseSegments(Tail(segs), d2)
           ELSE IF msg.exc # "" THEN Raised(msg.exc)
           ELSE IF msg.msg # PyNone THEN Returned(msg.msg)
           ELSE ParseSegments(Tail(segs), [d2 EXCEPT ![prefix] = msg.vallist])

\* what parse_expr(s) returns or raises when nothing else runs meanwhile
parse_expr(s) == ParseSegments(SplitComma(s), EmptyDict)

(***************************************************************************)
(* build_sql.                                                              *)
(***************************************************************************)
\* what is prepended to each column name
Pre(table) == IF table = PyNone THEN <<>> ELSE table.v \o <<".">>

\* string.joinfields(strs, sep)
RECURSIVE JoinFields(_, _)
JoinFields(strs, sep) ==
  IF strs = <<>> THEN <<>>
  ELSE IF Len(strs) = 1 THEN Head(strs)
  ELSE Head(strs) \o sep \o JoinFields(Tail(strs), sep)

RECURSIVE MapIntToStr(_)
MapIntToStr(ints) ==
  IF ints = <<>> THEN <<>>
  ELSE <<IntToStr(Head(ints).v)>> \o MapIntToStr(Tail(ints))

\* str(sets) of a list of ints
StrOfList(ints) == <<"[">> \o JoinFields(MapIntToStr(ints), <<",", " ">>) \o <<"]">>

\* re.sub of one character by another
ReSub(from, to, str) == [i \in 1..Len(str) |-> IF str[i] = from THEN to ELSE str[i]]

IsIntValue(numericPart) == numericPart.t = "int"
IsTupleValue(numericPart) == numericPart.t = "tuple"

PrefixEquals(pre, prefixPart) ==
  <<"(">> \o pre \o TxtPrefixPartEq \o prefixPart \o <<"'">>

PrefixIsNull(pre) == <<"(">> \o pre \o TxtPrefixPartIsNull

\* SetsClause with the test for no single number taken as len(sets) <= 1
SetsClauseAtMostOne(pre, prefixPart, sets) ==
  IF Len(sets) <= 1
  THEN PrefixEquals(pre, prefixPart) \o TxtAnd \o pre \o TxtNumericPart \o TxtIsNull
  ELSE (IF prefixPart # <<>> THEN PrefixEquals(pre, prefixPart) ELSE PrefixIsNull(pre))
         \o TxtAnd \o pre \o TxtNumericPart \o TxtIn
         \o ReSub("]", ")", ReSub("[", "(", StrOfList(sets))) \o <<")">>

\* the clause of the single numbers of one prefix
SetsClause(pre, prefixPart, sets) ==
  IF Len(sets) = 0
  THEN PrefixEquals(pre, prefixPart) \o TxtAnd \o pre \o TxtNumericPart \o TxtIsNull
  ELSE IF Len(sets) = 1
  THEN (IF prefixPart # <<>> THEN PrefixEquals(pre, prefixPart) ELSE PrefixIsNull(pre))
         \o TxtAnd \o pre \o TxtNumericPart \o <<"=">>
         \o IntToStr(sets[1].v) \o <<")">>
  ELSE (IF prefixPart # <<>> THEN PrefixEquals(pre, prefixPart) ELSE PrefixIsNull(pre))
         \o TxtAnd \o pre \o TxtNumericPart \o TxtIn
         \o ReSub("]", ")", ReSub("[", "(", StrOfList(sets))) \o <<")">>

\* the clause of one range of one prefix
RangeClause(pre, prefixPart, range) ==
  (IF prefixPart # <<>> THEN PrefixEquals(pre, prefixPart) ELSE PrefixIsNull(pre))
    \o TxtAnd \o pre \o TxtNumericPart
    \o TxtBetween \o IntToStr(range.a.v) \o TxtAnd \o IntToStr(range.b.v) \o <<")">>

RECURSIVE RangeClauses(_, _, _)
RangeClauses(pre, prefixPart, ranges) ==
  IF ranges = <<>> THEN <<>>
  ELSE <<RangeClause(pre, prefixPart, Head(ranges))>>
         \o RangeClauses(pre, prefixPart, Tail(ranges))

Reverse(seq) == [i \in 1..Len(seq) |-> seq[Len(seq) + 1 - i]]

\* PrefixClauses with each single number put in front of sets
PrefixClausesSetsInFront(pre, prefixPart, numericParts) ==
  LET sets == Reverse(SelectSeq(numericParts, IsIntValue))
      ranges == SelectSeq(numericParts, IsTupleValue)
  IN  <<SetsClause(pre, prefixPart, sets)>> \o RangeClauses(pre, prefixPart, ranges)

\* PrefixClauses that leaves the clause of the singles out when the prefix
\* has no single number but has ranges
PrefixClausesRangesAlone(pre, prefixPart, numericParts) ==
  LET sets == SelectSeq(numericParts, IsIntValue)
      ranges == SelectSeq(numericParts, IsTupleValue)
  IN  IF sets = <<>> /\ ranges # <<>>
      THEN RangeClauses(pre, prefixPart, ranges)
      ELSE <<SetsClause(pre, prefixPart, sets)>>
             \o RangeClauses(pre, prefixPart, ranges)

\* what one pass of the loop over id.keys() appends to where_list
PrefixClauses(pre, prefixPart, numericParts) ==
  LET sets == SelectSeq(numericParts, IsIntValue)
      ranges == SelectSeq(numericParts, IsTupleValue)
  IN  <<SetsClause(pre, prefixPart, sets)>> \o RangeClauses(pre, prefixPart, ranges)

RECURSIVE WhereList(_, _, _)
WhereList(pre, id, keys) ==
  IF keys = <<>> THEN <<>>
  ELSE PrefixClauses(pre, Head(keys), id[Head(keys)]) \o WhereList(pre, id, Tail(keys))

\* Where with the private column left without the alias
WhereBarePrivate(pre, where_list) ==
  <<"(">> \o JoinFields(where_list, TxtOr) \o <<")">> \o TxtAnd \o TxtPrivate

\* the text build_sql returns: the clauses joined, then the private test
Where(pre, where_list) ==
  <<"(">> \o JoinFields(where_list, TxtOr) \o <<")">> \o TxtAnd \o pre \o TxtPrivate

\* the orders in which id.keys() may list the keys of the dictionary
KeyOrders(id) ==
  {keys \in TupleSeqs(DOMAIN id, Cardinality(DOMAIN id)) :
     /\ Len(keys) = Cardinality(DOMAIN id)
     /\ \A k \in DOMAIN id : \E i \in 1..Len(keys) : keys[i] = k}

\* build_sql from the return of parse_id on
build_sql_id(p) ==
  LET f == proc[p]
      id == f.retval
      pre == Pre(f.table)
  IN  /\ f.pc = "build_sql_id"
      /\ IF id.t = "str"
         THEN proc' = [proc EXCEPT ![p] =
                [f EXCEPT !.pc = "done", !.out = Returned(id)]]
         ELSE \E keys \in KeyOrders(id.d) :
                LET where_list == WhereList(pre, id.d, keys)
                IN  proc' = [proc EXCEPT ![p] =
                      [f EXCEPT !.pc = "done", !.where_list = where_list,
                                !.out = Returned(PyStr(Where(pre, where_list)))]]
      /\ UNCHANGED <<CurStringToParse, budget>>

Next ==
  \E p \in Threads :
    \/ call_parse_expr(p)
    \/ call_build_sql(p)
    \/ call_build_sql_parsed(p)
    \/ call_split_accnum(p)
    \/ call_tail_routine(p)
    \/ call_number(p)
    \/ parse_expr_for(p)
    \/ simple_accnum_step(p)
    \/ parse_expr_append(p)
    \/ tail(p)
    \/ range_tail(p)
    \/ plus_tail(p)
    \/ number_step(p)
    \/ range_tail_number(p)
    \/ plus_tail_number(p)
    \/ build_sql_id(p)

Spec == Init /\ [][Next]_vars

SpecConc == InitConc /\ [][Next]_vars

(***************************************************************************)
(* What the grammar of the query expressions prescribes, read off the      *)
(* input text: the reference the properties below compare the results to.  *)
(***************************************************************************)
Done(p, fn) == proc[p].pc = "done" /\ proc[p].fn = fn

IsDigits(x) == x # <<>> /\ \A i \in 1..Len(x) : IsDigit(x[i])

HasChar(x, c) == \E i \in 1..Len(x) : x[i] = c

StartsWith(x, y) == Len(y) <= Len(x) /\ SubSeq(x, 1, Len(y)) = y

Contains(x, y) == \E i \in 0..(Len(x) - Len(y)) : SubSeq(x, i + 1, i + Len(y)) = y

\* the number of decimal digits at the end of the token
RECURSIVE TrailingDigits(_)
TrailingDigits(token) ==
  IF token # <<>> /\ IsDigit(token[Len(token)])
  THEN 1 + TrailingDigits(SubSeq(token, 1, Len(token) - 1))
  ELSE 0

\* the prefix and the numeric part of a token
TokenSplit(token) ==
  LET n == TrailingDigits(token)
  IN  PyPair(PyStr(SubSeq(token, 1, Len(token) - n)),
             IF n = 0 THEN PyNone
             ELSE PyInt(atoi(SubSeq(token, Len(token) - n + 1, Len(token)))))

\* the length of the simple token of a segment: up to the first '+' or '..'
SimpleTokenLen(seg) ==
  LET stops == {i \in 0..Len(seg) :
                  \/ i = Len(seg)
                  \/ seg[i + 1] = "+"
                  \/ (i + 2 <= Len(seg) /\ seg[i + 1] = "." /\ seg[i + 2] = ".")}
  IN  CHOOSE i \in stops : \A j \in stops : i <= j

\* the tails of a segment applied to the values of its prefix so far:
\* '..' NUMBER turns the last value into a range and may only be followed
\* by a '+' tail, '+' NUMBER appends a value
RECURSIVE GrammarTails(_, _, _)
GrammarTails(rest, vals, afterRange) ==
  IF rest = <<>> THEN [ok |-> TRUE, vals |-> vals]
  ELSE IF StartsWith(rest, <<".", ".">>)
  THEN LET n == DigitRun(rest, 2)
       IN  IF afterRange \/ n = 0 \/ vals[Len(vals)].t # "int"
           THEN [ok |-> FALSE, vals |-> vals]
           ELSE GrammarTails(SliceFrom(rest, 2 + n),
                             [vals EXCEPT ![Len(vals)] =
                                PyPair(@, PyInt(atoi(Slice(rest, 2, 2 + n))))],
                             TRUE)
  ELSE IF rest[1] = "+"
  THEN LET n == DigitRun(rest, 1)
       IN  IF n = 0 THEN [ok |-> FALSE, vals |-> vals]
           ELSE GrammarTails(SliceFrom(rest, 1 + n),
                             Append(vals, PyInt(atoi(Slice(rest, 1, 1 + n)))),
                             FALSE)
  ELSE [ok |-> FALSE, vals |-> vals]

\* the segments of an expression applied in turn to one accumulator
RECURSIVE GrammarSegments(_, _)
GrammarSegments(segs, acc) ==
  IF segs = <<>> THEN [ok |-> TRUE, d |-> acc]
  ELSE LET seg == Head(segs)
           n == SimpleTokenLen(seg)
           tok == TokenSplit(SubSeq(seg, 1, n))
           prefix == tok.a.v
           before == IF prefix \in DOMAIN acc THEN acc[prefix] ELSE <<>>
           r == GrammarTails(SliceFrom(seg, n), Append(before, tok.b), FALSE)
       IN  IF r.ok
           THEN GrammarSegments(Tail(segs), (prefix :> r.vals) @@ acc)
           ELSE [ok |-> FALSE, d |-> acc]

GrammarParse(s) == GrammarSegments(SplitComma(s), EmptyDict)

\* a segment whose tail is not a chain of '+' NUMBER and '..' NUMBER
MalformedTail(seg) ==
  LET n == SimpleTokenLen(seg)
  IN  ~GrammarTails(SliceFrom(seg, n), <<PyInt(0)>>, FALSE).ok

\* a segment whose simple token has no numeric part and is followed by '..'
PrefixOnlyRange(seg) ==
  LET n == SimpleTokenLen(seg)
  IN  /\ StartsWith(SliceFrom(seg, n), <<".", ".">>)
      /\ TokenSplit(SubSeq(seg, 1, n)).b = PyNone

ErrorReturned(f) == f.out.kind = "return" /\ f.out.val.t = "str"

EndsWith(x, y) == Len(y) <= Len(x) /\ SubSeq(x, Len(x) - Len(y) + 1, Len(x)) = y

NoNewline(s) == ~HasChar(s, "\n")

Singles(vals) == SelectSeq(vals, IsIntValue)
Ranges(vals) == SelectSeq(vals, IsTupleValue)

\* the qualifier of the column names: the alias and a dot, or nothing
Qualifier(table) == IF table = PyNone THEN <<>> ELSE table.v \o <<".">>

ExpectPrefixEq ==
  <<"p", "r", "e", "f", "i", "x", "P", "a", "r", "t", "=", "'">>

ExpectPrefixIsNull ==
  <<"p", "r", "e", "f", "i", "x", "P", "a", "r", "t", " ", "i", "s", " ",
    "n", "u", "l", "l">>

ExpectQuoteAnd ==
  <<"'", " ", "a", "n", "d", " ">>

ExpectAnd ==
  <<" ", "a", "n", "d", " ">>

ExpectNumericEq ==
  <<"n", "u", "m", "e", "r", "i", "c", "P", "a", "r", "t", "=">>

ExpectNumericIn ==
  <<"n", "u", "m", "e", "r", "i", "c", "P", "a", "r", "t", " ", "i", "n",
    " ">>

ExpectNumericBetween ==
  <<"n", "u", "m", "e", "r", "i", "c", "P", "a", "r", "t", " ", "b", "e",
    "t", "w", "e", "e", "n", " ">>

ExpectClosePrivate ==
  <<")", ")", " ", "a", "n", "d", " ">>

ExpectPrivate ==
  <<"p", "r", "i", "v", "a", "t", "e", " ", "=", " ", "0">>

\* V1, V2, ... in decimal
RECURSIVE CommaList(_)
CommaList(ints) ==
  IF Len(ints) = 1 THEN IntToStr(ints[1].v)
  ELSE IntToStr(ints[1].v) \o <<",", " ">> \o CommaList(Tail(ints))

\* the test of the prefix column that opens a clause of the prefix
PrefixTest(q, prefix) ==
  <<"(">> \o q \o (IF prefix = <<>> THEN ExpectPrefixIsNull
                   ELSE ExpectPrefixEq \o prefix \o <<"'">>) \o ExpectAnd

\* the clauses of where_list that satisfy Test
CountClauses(where_list, Test(_)) ==
  Cardinality({i \in 1..Len(where_list) : Test(where_list[i])})

\* the names of the columns the predicate refers to
ColumnNames ==
  {SubSeq(ExpectPrefixEq, 1, 10), SubSeq(ExpectNumericEq, 1, 11),
   SubSeq(ExpectPrivate, 1, 7)}

\* the places of text where the column name col begins
Occurrences(text, col) ==
  {i \in 1..(Len(text) - Len(col) + 1) : SubSeq(text, i, i + Len(col) - 1) = col}

\* the clauses written one after the other with or between them
RECURSIVE Disjunction(_)
Disjunction(clauses) ==
  IF Len(clauses) = 1 THEN clauses[1]
  ELSE clauses[1] \o <<" ", "o", "r", " ">> \o Disjunction(Tail(clauses))

(***************************************************************************)
(* Properties.                                                             *)
(***************************************************************************)

\* C1: split_accnum returns (prefix, numeric) where numeric is the integer
\* value of the maximal run of digits at the end of the token, None when
\* there is none, and prefix is everything before that run, whatever the
\* characters of the prefix are (newline included).
C1_SplitAtTrailingDigits ==
  \A p \in Threads :
    Done(p, "split_accnum") => proc[p].out = Returned(TokenSplit(proc[p].s))

\* C2: for one segment P N '..' M (P without newline, N and M digits),
\* parse_expr returns the mapping with the only key P and the list
\* [Range(N, M)].
C2_RangeSegment ==
  \A p \in Threads :
    Done(p, "parse_expr") =>
      LET s == proc[p].s
      IN  \A i \in 0..Len(s), j \in 0..Len(s) :
            LET P == SubSeq(s, 1, i)
                N == SubSeq(s, i + 1, j)
                M == SliceFrom(s, j + 2)
            IN  ( /\ i < j /\ j + 2 < Len(s)
                  /\ SubSeq(s, j + 1, j + 2) = <<".", ".">>
                  /\ IsDigits(N) /\ IsDigits(M)
                  /\ TrailingDigits(P) = 0
                  /\ ~HasChar(P, ",") /\ ~HasChar(P, "+")
                  /\ ~Contains(P, <<".", ".">>)
                  /\ NoNewline(P) )
                => proc[p].out =
                     Returned(PyDict(P :> <<PyPair(PyInt(atoi(N)), PyInt(atoi(M)))>>))

\* C3: an expression that follows the grammar parses to the mapping that
\* lists, under each prefix, the values of that prefix in the left-to-right
\* order of the input: '+' NUMBER appends, and a later segment with the
\* same prefix appends to the same list.  Stated for input without newline.
C3_ValuesInInputOrder ==
  \A p \in Threads :
    (Done(p, "parse_expr") /\ NoNewline(proc[p].s) /\ GrammarParse(proc[p].s).ok)
      => proc[p].out = Returned(PyDict(GrammarParse(proc[p].s).d))

\* C4: when the simple token of a segment has no numeric part and a '..'
\* tail follows it, parse_expr returns an error message, never a mapping.
C4_RangeAfterPrefixOnly ==
  \A p \in Threads :
    Done(p, "parse_expr") =>
      LET segs == SplitComma(proc[p].s)
      IN  (\E k \in 1..Len(segs) : PrefixOnlyRange(segs[k]))
            => ErrorReturned(proc[p])

\* C5: if a segment has a malformed tail, parse_expr returns only an error
\* message, and the segments after the first failing one are not processed.
C5_AllOrNothing ==
  \A p \in Threads :
    Done(p, "parse_expr") =>
      LET segs == SplitComma(proc[p].s)
          bad == {k \in 1..Len(segs) : MalformedTail(segs[k])}
      IN  bad # {} =>
            /\ ErrorReturned(proc[p])
            /\ \A k \in bad : proc[p].sae <= k

\* C6: when the parse of the search string inside build_sql does not give
\* a mapping, build_sql returns the error value of the parser, unchanged
\* and without any predicate text, whatever the table alias is.
C6_ErrorPassedThrough ==
  \A p \in Threads :
    (Done(p, "build_sql") /\ (proc[p].out.kind = "raise" \/ proc[p].retval.t # "dict"))
      => /\ ErrorReturned(proc[p])
         /\ proc[p].out.val = proc[p].retval
         /\ proc[p].where_list = <<>>

C9_RangesKeptApart ==
  \A p \in Threads :
    (Done(p, "build_sql") /\ NoNewline(proc[p].s) /\ GrammarParse(proc[p].s).ok)
      => LET id == GrammarParse(proc[p].s).d
             q == Qualifier(proc[p].table)
             where_list == proc[p].where_list
         IN  \A P \in DOMAIN id :
               (Len(Ranges(id[P])) >= 2 /\ Len(Singles(id[P])) >= 2) =>
                 LET ClauseOfP(e) == StartsWith(e, PrefixTest(q, P))
                 IN  /\ proc[p].out.kind = "return"
                     /\ CountClauses(where_list, ClauseOfP) = 1 + Len(Ranges(id[P]))
                     /\ \A r \in 1..Len(Ranges(id[P])) :
                          \E i \in 1..Len(where_list) :
                            where_list[i] =
                              PrefixTest(q, P) \o q \o ExpectNumericBetween
                                \o IntToStr(Ranges(id[P])[r].a.v) \o ExpectAnd
                                \o IntToStr(Ranges(id[P])[r].b.v) \o <<")">>

\* C10: when the parsed search has the empty prefix, every clause emitted
\* for it tests prefixPart is null, none tests prefixPart = ''.
C10_EmptyPrefixIsNull ==
  \A p \in Threads :
    (Done(p, "build_sql") /\ proc[p].out.kind = "return" /\ proc[p].retval.t = "dict")
      => LET q == Qualifier(proc[p].table)
             where_list == proc[p].where_list
         IN  <<>> \in DOMAIN proc[p].retval.d =>
               /\ \A i \in 1..Len(where_list) :
                    ~StartsWith(where_list[i], <<"(">> \o q \o ExpectPrefixEq \o <<"'">>)
               /\ \E i \in 1..Len(where_list) :
                    StartsWith(where_list[i], PrefixTest(q, <<>>))

C12_NoInterference ==
  \A p \in Threads : \A r \in Threads \ {p} :
    (Done(p, "parse_expr") /\ Done(r, "parse_expr"))
      => /\ proc[p].out = parse_expr(proc[p].s)
         /\ proc[r].out = parse_expr(proc[r].s)

\* C13: a call of parse_expr leaves the module variable CurStringToParse as
\* it found it: when the call has returned or raised, the variable has the
\* value it had when the call began.
C13_CursorRestored ==
  \A p \in Threads :
    Done(p, "parse_expr") => CurStringToParse = proc[p].entry

\* the routines that consume the string to parse
InTail(f) ==
  f.pc \in {"tail", "range_tail", "plus_tail", "number",
            "range_tail_number", "plus_tail_number"}

\* what a call under way has left to do, counted so that one segment
\* weighs more than anything the routines do within a segment: the
\* segments not yet begun, then the length of the string to parse, then
\* the place in the chain of routines
Measure(f, cur) ==
  LET weight == 6 * (Len(f.s) + 1) + 12
      left == Len(f.single_accnum_exprs) - f.sae
      within == 6 * Len(cur) + 2
  IN  IF f.pc \in {"off", "idle", "done"} THEN 0
      ELSE IF f.pc = "build_sql_id" THEN 1
      ELSE IF f.pc = "parse_expr_for" THEN (left + 1) * weight + 2
      ELSE IF f.pc = "simple_accnum" THEN left * weight + within + 9
      ELSE IF f.pc = "parse_expr_append" THEN left * weight + within + 8
      ELSE IF f.pc = "tail" THEN left * weight + within + 4
      ELSE IF f.pc \in {"range_tail", "plus_tail"} THEN left * weight + within + 3
      ELSE IF f.pc = "number" THEN left * weight + within + 2
      ELSE IF f.thenumber.t = "int" THEN left * weight + within + 5
      ELSE left * weight + within + 1

\* C14: every call terminates.  A step of a tail routine never lengthens
\* the string to parse; number either returns an error or takes at least
\* one character off it; range_tail and plus_tail go on to a further tail
\* routine only after number has returned a number; every step of a call
\* under way lowers what the call has left to do, which is never below
\* zero, so that every call reaches its result after finitely many steps.
C14_Terminates ==
  /\ [][\A p \in Threads :
          (InTail(proc[p]) /\ proc'[p] # proc[p]) =>
            /\ Len(CurStringToParse') <= Len(CurStringToParse)
            /\ proc[p].pc = "number" =>
                 \/ Len(CurStringToParse') < Len(CurStringToParse)
                 \/ proc'[p].thenumber.t = "str"
                 \/ proc'[p].out.val.t = "str"
            /\ ( /\ proc[p].pc \in {"range_tail_number", "plus_tail_number"}
                 /\ proc'[p].pc \in {"tail", "plus_tail"} )
                 => proc[p].thenumber.t = "int"]_vars
  /\ [][\A p \in Threads :
          (proc[p].pc \notin {"off", "idle", "done"} /\ proc'[p] # proc[p]) =>
            /\ Measure(proc'[p], CurStringToParse')
                 < Measure(proc[p], CurStringToParse)
            /\ Measure(proc'[p], CurStringToParse') >= 0]_vars

\* tail has gone twice round plus_tail and number and has returned
W14_Terminates ==
  \E p \in Threads :
    /\ Done(p, "tail")
    /\ proc[p].out = Returned(PyNone)
    /\ Len(proc[p].vallist) >= 3

\* the text of one value: nothing for an absent number, the digits of a
\* single number, lo..hi for a range
ValueText(v) ==
  IF v = PyNone THEN <<>>
  ELSE IF v.t = "int" THEN IntToStr(v.v)
  ELSE IntToStr(v.a.v) \o <<".", ".">> \o IntToStr(v.b.v)

RECURSIVE ValuesText(_)
ValuesText(vals) ==
  IF Len(vals) = 1 THEN ValueText(vals[1])
  ELSE ValueText(vals[1]) \o <<"+">> \o ValuesText(Tail(vals))

\* the expression rebuilt from the mapping d: one segment per prefix, the
\* prefix followed by its values in order
RECURSIVE Rebuild(_, _)
Rebuild(d, keys) ==
  IF Len(keys) = 1 THEN keys[1] \o ValuesText(d[keys[1]])
  ELSE keys[1] \o ValuesText(d[keys[1]]) \o <<",">> \o Rebuild(d, Tail(keys))

\* only the first value of a prefix may be absent
Renderable(d) ==
  \A P \in DOMAIN d : \A i \in 2..Len(d[P]) : d[P][i] # PyNone

\* C15: the text rebuilt from a mapping that parse_expr has returned, with
\* the prefixes in any order, parses to the same mapping again.
C15_RoundTrip ==
  \A p \in Threads :
    (Done(p, "parse_expr") /\ proc[p].out.kind = "return"
       /\ proc[p].out.val.t = "dict" /\ Renderable(proc[p].out.val.d))
      => \A keys \in KeyOrders(proc[p].out.val.d) :
           parse_expr(Rebuild(proc[p].out.val.d, keys)) = proc[p].out

GivenMapping(f) == f.fn = "build_sql" /\ f.search.t = "dict"

WellFormedValue(v) ==
  \/ v = PyNone
  \/ v.t = "int"
  \/ (v.t = "tuple" /\ v.a.t = "int" /\ v.b.t = "int")

InRangeTail(f) ==
  \/ f.pc \in {"range_tail", "range_tail_number"}
  \/ (f.pc = "number" /\ f.caller = "range_tail")

\* C17: at every point of a parse, every element of every list of the
\* accumulator is absent, a number, or a pair of two numbers; and while
\* range_tail works, the last element of the list of the current prefix,
\* the one the range is made of, is absent or a number, never a pair,
\* also when the prefix has come up in an earlier segment.
C17_AccumulatorWellFormed ==
  \A p \in Threads :
    (InParse(proc[p]) /\ proc[p].retval.t = "dict")
      => LET d == proc[p].retval.d
         IN  /\ \A P \in DOMAIN d : \A i \in 1..Len(d[P]) :
                  WellFormedValue(d[P][i])
             /\ InRangeTail(proc[p]) =>
                  /\ proc[p].prefix \in DOMAIN d
                  /\ d[proc[p].prefix] # <<>>
                  /\ d[proc[p].prefix][Len(d[proc[p].prefix])].t \in {"None", "int"}

\* a parse that has made a range, under a prefix that has two values
W17_AccumulatorWellFormed ==
  \E p \in Threads :
    /\ InParse(proc[p]) /\ proc[p].retval.t = "dict"
    /\ \E P \in DOMAIN proc[p].retval.d :
         /\ Len(proc[p].retval.d[P]) >= 2
         /\ \E i \in 1..Len(proc[p].retval.d[P]) :
              proc[p].retval.d[P][i].t = "tuple"

ExpectNumericIsNull ==
  <<"n", "u", "m", "e", "r", "i", "c", "P", "a", "r", "t", " ", "i", "s",
    " ", "n", "u", "l", "l", ")">>

\* the clause that asks for the rows of the prefix without a number
NullClause(q, prefix) ==
  <<"(">> \o q \o ExpectPrefixEq \o prefix \o ExpectQuoteAnd
    \o q \o ExpectNumericIsNull

\* C18: build_sql emits the clause numericPart is null for a prefix when,
\* and only when, the list of the prefix holds no single number, whether
\* or not it holds absent entries or ranges: once for such a prefix, next
\* to its between clauses if it has ranges, and never for a prefix that
\* has a single number, even if a segment gave the prefix alone.
C18_NullClauseIffNoSingle ==
  \A p \in Threads :
    (Done(p, "build_sql") /\ proc[p].out.kind = "return" /\ proc[p].retval.t = "dict")
      => LET id == proc[p].retval.d
             q == Qualifier(proc[p].table)
             where_list == proc[p].where_list
             IsNullClause(e) == EndsWith(e, ExpectNumericIsNull)
         IN  /\ \A P \in DOMAIN id :
                  LET NullClauseOfP(e) == e = NullClause(q, P)
                  IN  /\ CountClauses(where_list, NullClauseOfP)
                           = (IF Singles(id[P]) = <<>> THEN 1 ELSE 0)
                      /\ Singles(id[P]) = <<>> =>
                           Contains(proc[p].out.val.v, NullClause(q, P))
             /\ CountClauses(where_list, IsNullClause)
                  = Cardinality({P \in DOMAIN id : Singles(id[P]) = <<>>})

\* a prefix with ranges only, and its clause for the rows without a number
W18_NullClauseIffNoSingle ==
  \E p \in Threads :
    /\ Done(p, "build_sql") /\ proc[p].out.kind = "return"
    /\ proc[p].retval.t = "dict"
    /\ \E P \in DOMAIN proc[p].retval.d :
         /\ Singles(proc[p].retval.d[P]) = <<>>
         /\ Ranges(proc[p].retval.d[P]) # <<>>
         /\ \E i \in 1..Len(proc[p].where_list) :
              proc[p].where_list[i] = NullClause(Qualifier(proc[p].table), P)

\* C19: when the calls follow one another, what parse_expr(s) returns or
\* raises depends on s alone: after any earlier calls, also calls that
\* ended with text left in CurStringToParse, it is what parse_expr(s)
\* gives when it is the first call.
C19_DependsOnInputOnly ==
  \A p \in Threads :
    (proc[p].fn = "parse_expr" /\ proc[p].pc = "done")
      => proc[p].out = parse_expr(proc[p].s)

\* a call that began with text left in CurStringToParse and gave a mapping
W19_DependsOnInputOnly ==
  \E p \in Threads :
    /\ Done(p, "parse_expr")
    /\ proc[p].entry # <<>>
    /\ proc[p].out.kind = "return"
    /\ proc[p].s # <<>>

====
